---------------------------- MODULE Spec2Model ----------------------------
(***************************************************************************)
(* Model of itest/loadtest/utils.go: the load-test fixture that builds the *)
(* two tapd client bundles (Alice, Bob) and the bitcoind connection.       *)
(*                                                                         *)
(* One run of the model is one test: initClients, then the test body, then *)
(* the cleanups the test registered, run last-registered-first.  Every     *)
(* require.NoError / require.True that fails ends the running function at  *)
(* once (t.FailNow), which the model writes as FailNow.  Results of file   *)
(* reads, parses, dials and RPC calls are chosen by the environment.       *)
(***************************************************************************)
EXTENDS Integers, Sequences, FiniteSets, TLC

\* Number of steps the test body may take after initClients returned.
MaxBodySteps == 2

Participants == {"alice", "bob"}

\* Values of cfg.TLSPath / cfg.MacPath: the empty string or a path.
TLSPaths == {"", "tls.cert"}
MacPaths == {"", "admin.macaroon"}

VARIABLES
    cfg,            \* *Config: cfg.alice, cfg.bob (TapConfig), cfg.bitcoin
    pc,             \* position in the code
    phase,          \* "setup", "body", "teardown" or "done"
    who,            \* participant whose getTapClient / GetInfo is running
    creds,          \* getTapClient: local creds
    opts,           \* getTapClient: local opts ([]grpc.DialOption)
    conn,           \* per participant: "none", "open" or "closed"
    dialOpts,       \* per participant: the option list handed to DialContext
    dialCount,      \* per participant: number of DialContext calls
    clients,        \* initClients: locals alice, bob (Nil or a bundle)
    disableTLS,     \* getBitcoinConn: local disableTLS
    rpcCert,        \* getBitcoinConn: local rpcCert ("nil" or "bytes")
    connCfg,        \* getBitcoinConn: local connCfg (Nil until built)
    bitcoinClient,  \* initClients: local bitcoinClient (Nil or a handle)
    cleanups,       \* functions registered with t.Cleanup, in order
    ret,            \* what initClients returned to the test (Nil before)
    failed,         \* the test has been marked failed
    bodySteps,      \* steps taken by the test body
    log             \* history of the calls made, in order

vars == <<cfg, pc, phase, who, creds, opts, conn, dialOpts, dialCount,
          clients, disableTLS, rpcCert, connCfg, bitcoinClient, cleanups,
          ret, failed, bodySteps, log>>

tapLocals == <<creds, opts>>
tapState  == <<conn, dialOpts, dialCount>>
btcLocals == <<disableTLS, rpcCert, connCfg>>
testState == <<ret, bodySteps>>

\* A nil pointer is the empty tuple; a non-nil one is <<value>>.
Nil == <<>>
Ptr(v) == <<v>>

\* One entry of the history: the call, whose it is, and whether it succeeded.
Ev(op, w, ok) == [op |-> op, who |-> w, ok |-> ok, phase |-> phase]

\* grpc.WithDefaultCallOptions(maxMsgRecvSize)
maxMsgRecvSize == "MaxCallRecvMsgSize"

Init ==
    /\ cfg \in [alice   : [TLSPath : TLSPaths, MacPath : MacPaths],
                bob     : [TLSPath : TLSPaths, MacPath : MacPaths],
                bitcoin : [TLSPath : TLSPaths]]
    /\ pc = "getTapClient"
    /\ phase = "setup"
    /\ who = "alice"
    /\ creds = "unset"
    /\ opts = <<>>
    /\ conn = [p \in Participants |-> "none"]
    /\ dialOpts = [p \in Participants |-> <<>>]
    /\ dialCount = [p \in Participants |-> 0]
    /\ clients = [p \in Participants |-> Nil]
    /\ disableTLS = FALSE
    /\ rpcCert = "nil"
    /\ connCfg = Nil
    /\ bitcoinClient = Nil
    /\ cleanups = <<>>
    /\ ret = Nil
    /\ failed = FALSE
    /\ bodySteps = 0
    /\ log = <<>>

\* t.FailNow(): mark the test failed and stop the running function; the
\* testing package then runs the registered cleanups.
FailNow ==
    /\ failed' = TRUE
    /\ pc' = "runCleanup"
    /\ phase' = "teardown"

\* Variant of Require: the check records the failure and continues
\* (assert.NoError in place of require.NoError).
RequireNoStop(ok, next) ==
    /\ pc' = next
    /\ failed' = (failed \/ ~ok)
    /\ UNCHANGED phase

\* require.NoError(t, err) / require.True(t, ok): continue at next when the
\* check passes, FailNow otherwise.
Require(ok, next) ==
    IF ok THEN /\ pc' = next
               /\ UNCHANGED <<failed, phase>>
          ELSE FailNow

----------------------------------------------------------------------------
(* getTapClient(t, ctx, cfg.<who>.Tapd)                                     *)

\* creds := credentials.NewTLS(&tls.Config{}); if cfg.TLSPath != "" ...
TapDefaultCreds ==
    /\ pc = "getTapClient"
    /\ creds' = "defaultTLS"
    /\ opts' = <<>>
    /\ pc' = IF cfg[who].TLSPath # "" THEN "readTLS" ELSE "makeOpts"
    /\ UNCHANGED <<cfg, phase, who, tapState, clients, btcLocals,
                   bitcoinClient, cleanups, testState, failed, log>>

\* tlsCert, err := os.ReadFile(cfg.TLSPath); require.NoError(t, err)
TapReadTLS ==
    /\ pc = "readTLS"
    /\ \E ok \in BOOLEAN :
          /\ log' = Append(log, Ev("readTLS", who, ok))
          /\ Require(ok, "appendCerts")
    /\ UNCHANGED <<cfg, who, tapLocals, tapState, clients, btcLocals,
                   bitcoinClient, cleanups, testState>>

\* ok := cp.AppendCertsFromPEM(tlsCert); require.True(t, ok);
\* creds = credentials.NewClientTLSFromCert(cp, "")
TapAppendCerts ==
    /\ pc = "appendCerts"
    /\ \E ok \in BOOLEAN :
          /\ log' = Append(log, Ev("appendCerts", who, ok))
          /\ Require(ok, "makeOpts")
          /\ creds' = IF ok THEN "certPool" ELSE creds
    /\ UNCHANGED <<cfg, who, opts, tapState, clients, btcLocals,
                   bitcoinClient, cleanups, testState>>

\* opts := []grpc.DialOption{WithTransportCredentials(creds),
\*                           WithDefaultCallOptions(maxMsgRecvSize)}
InitialOpts(c) == << <<"TransportCredentials", c>>, <<maxMsgRecvSize>> >>

TapMakeOpts ==
    /\ pc = "makeOpts"
    /\ opts' = InitialOpts(creds)
    /\ pc' = IF cfg[who].MacPath # "" THEN "readMac" ELSE "dial"
    /\ UNCHANGED <<cfg, phase, who, creds, tapState, clients, btcLocals,
                   bitcoinClient, cleanups, testState, failed, log>>

\* macBytes, err := os.ReadFile(cfg.MacPath); require.NoError(t, err)
TapReadMac ==
    /\ pc = "readMac"
    /\ \E ok \in BOOLEAN :
          /\ log' = Append(log, Ev("readMac", who, ok))
          /\ Require(ok, "unmarshalMac")
    /\ UNCHANGED <<cfg, who, tapLocals, tapState, clients, btcLocals,
                   bitcoinClient, cleanups, testState>>

\* err = mac.UnmarshalBinary(macBytes); require.NoError(t, err)
TapUnmarshalMac ==
    /\ pc = "unmarshalMac"
    /\ \E ok \in BOOLEAN :
          /\ log' = Append(log, Ev("unmarshalMac", who, ok))
          /\ Require(ok, "newMacCred")
    /\ UNCHANGED <<cfg, who, tapLocals, tapState, clients, btcLocals,
                   bitcoinClient, cleanups, testState>>

\* Variant of WithMacCred: the per-call credential is put in front.
WithMacCredFirst(o) == << <<"PerRPCCredentials">> >> \o o

\* opts = append(opts, grpc.WithPerRPCCredentials(macCred))
WithMacCred(o) == Append(o, <<"PerRPCCredentials">>)

\* macCred, err := macaroons.NewMacaroonCredential(mac);
\* require.NoError(t, err); opts = append(opts, ...)
TapNewMacCred ==
    /\ pc = "newMacCred"
    /\ \E ok \in BOOLEAN :
          /\ log' = Append(log, Ev("newMacCred", who, ok))
          /\ Require(ok, "dial")
          /\ opts' = IF ok THEN WithMacCred(opts) ELSE opts
    /\ UNCHANGED <<cfg, who, creds, tapState, clients, btcLocals,
                   bitcoinClient, cleanups, testState>>

\* conn, err := grpc.DialContext(ctx, svrAddr, opts...); require.NoError
TapDial ==
    /\ pc = "dial"
    /\ \E ok \in BOOLEAN :
          /\ log' = Append(log, Ev("dial", who, ok))
          /\ Require(ok, "newClient")
          /\ conn' = IF ok THEN [conn EXCEPT ![who] = "open"] ELSE conn
    /\ dialOpts' = [dialOpts EXCEPT ![who] = opts]
    /\ dialCount' = [dialCount EXCEPT ![who] = @ + 1]
    /\ UNCHANGED <<cfg, who, tapLocals, clients, btcLocals, bitcoinClient,
                   cleanups, testState>>

\* client := &rpcClient{cfg: cfg, TaprootAssetsClient: ..., ...}: the four
\* stubs over the one conn, with the configuration the bundle was built from.
NewRpcClient(w) ==
    Ptr([cfg |-> w, conn |-> w,
         stubs |-> {"TaprootAssets", "Universe", "Mint", "AssetWallet"}])

\* Variant of CloseCleanup: every closure closes Alice's conn.
CloseCleanupShared(w) == [kind |-> "close", who |-> "alice"]

\* The closure registered at the end of getTapClient.
CloseCleanup(w) == [kind |-> "close", who |-> w]

\* Variant of TapRegisterClose: the bundle is returned without registering
\* the close of its conn.
TapNoRegisterClose ==
    /\ pc = "newClient"
    /\ clients' = [clients EXCEPT ![who] = NewRpcClient(who)]
    /\ pc' = "getInfo"
    /\ UNCHANGED <<cfg, phase, who, tapLocals, tapState, btcLocals,
                   bitcoinClient, cleanups, testState, failed, log>>

\* client := &rpcClient{...}; t.Cleanup(func() { conn.Close() ... });
\* return client   (initClients assigns the result to alice / bob)
TapRegisterClose ==
    /\ pc = "newClient"
    /\ cleanups' = Append(cleanups, CloseCleanup(who))
    /\ clients' = [clients EXCEPT ![who] = NewRpcClient(who)]
    /\ log' = Append(log, Ev("regClose", who, TRUE))
    /\ pc' = "getInfo"
    /\ UNCHANGED <<cfg, phase, who, tapLocals, tapState, btcLocals,
                   bitcoinClient, testState, failed>>

----------------------------------------------------------------------------
(* initClients(t, ctx, cfg)                                                 *)

\* Variant of AfterGetInfo: Bob's client is never built.
AfterGetInfoSkipBob(w) == "getBitcoinConn"

\* Where initClients continues after the GetInfo probe of participant w.
AfterGetInfo(w) == IF w = "alice" THEN "getTapClient" ELSE "getBitcoinConn"

\* Variant of GetInfo: the error of the probe is dropped.
GetInfoIgnoreErr ==
    /\ pc = "getInfo"
    /\ \E ok \in BOOLEAN : log' = Append(log, Ev("getInfo", who, ok))
    /\ pc' = AfterGetInfo(who)
    /\ who' = IF who = "alice" THEN "bob" ELSE who
    /\ UNCHANGED <<cfg, phase, failed, tapLocals, tapState, clients,
                   btcLocals, bitcoinClient, cleanups, testState>>

\* _, err := alice.GetInfo(ctx, ...); require.NoError(t, err)   (and bob)
GetInfo ==
    /\ pc = "getInfo"
    /\ \E ok \in BOOLEAN :
          /\ log' = Append(log, Ev("getInfo", who, ok))
          /\ Require(ok, AfterGetInfo(who))
          /\ who' = IF ok /\ who = "alice" THEN "bob" ELSE who
    /\ UNCHANGED <<cfg, tapLocals, tapState, clients, btcLocals,
                   bitcoinClient, cleanups, testState>>

----------------------------------------------------------------------------
(* getBitcoinConn(t, cfg.Bitcoin)                                           *)

\* disableTLS := cfg.TLSPath == ""; if !disableTLS { ... }
BtcDisableTLS ==
    /\ pc = "getBitcoinConn"
    /\ disableTLS' = (cfg.bitcoin.TLSPath = "")
    /\ pc' = IF ~disableTLS' THEN "btcReadTLS" ELSE "btcNew"
    /\ UNCHANGED <<cfg, phase, who, tapLocals, tapState, clients, rpcCert,
                   connCfg, bitcoinClient, cleanups, testState, failed, log>>

\* rpcCert, err = os.ReadFile(cfg.TLSPath); require.NoError(t, err)
BtcReadTLS ==
    /\ pc = "btcReadTLS"
    /\ \E ok \in BOOLEAN :
          /\ log' = Append(log, Ev("btcReadTLS", "bitcoin", ok))
          /\ Require(ok, "btcNew")
          /\ rpcCert' = IF ok THEN "bytes" ELSE rpcCert
    /\ UNCHANGED <<cfg, who, tapLocals, tapState, clients, disableTLS,
                   connCfg, bitcoinClient, cleanups, testState>>

\* Variant of NewConnConfig: DisableTLS is left at its zero value.
NewConnConfigTLSOn(dis, cert) ==
    Ptr([HTTPPostMode |-> TRUE, DisableTLS |-> FALSE, Certificates |-> cert])

\* connCfg := &rpcclient.ConnConfig{HTTPPostMode: true,
\*     DisableTLS: disableTLS, Certificates: rpcCert, ...}
NewConnConfig(dis, cert) ==
    Ptr([HTTPPostMode |-> TRUE, DisableTLS |-> dis, Certificates |-> cert])

\* Variant of BtcNew: the error of rpcclient.New is dropped.
BtcNewIgnoreErr ==
    /\ pc = "btcNew"
    /\ connCfg' = NewConnConfig(disableTLS, rpcCert)
    /\ \E ok \in BOOLEAN :
          /\ log' = Append(log, Ev("rpcclientNew", "bitcoin", ok))
          /\ bitcoinClient' = IF ok THEN connCfg' ELSE bitcoinClient
    /\ pc' = "mineBlocks"
    /\ UNCHANGED <<cfg, phase, failed, who, tapLocals, tapState, clients,
                   disableTLS, rpcCert, cleanups, testState>>

\* connCfg := ...; client, err := rpcclient.New(connCfg, nil);
\* require.NoError(t, err); return client
BtcNew ==
    /\ pc = "btcNew"
    /\ connCfg' = NewConnConfig(disableTLS, rpcCert)
    /\ \E ok \in BOOLEAN :
          /\ log' = Append(log, Ev("rpcclientNew", "bitcoin", ok))
          /\ Require(ok, "mineBlocks")
          /\ bitcoinClient' = IF ok THEN connCfg' ELSE bitcoinClient
    /\ UNCHANGED <<cfg, who, tapLocals, tapState, clients, disableTLS,
                   rpcCert, cleanups, testState>>

----------------------------------------------------------------------------
(* initClients, continued                                                   *)

\* Variant of MineBlocksSetup: a failed mining call does not stop the setup.
MineBlocksSetupNoStop ==
    /\ pc = "mineBlocks"
    /\ \E ok \in BOOLEAN :
          /\ log' = Append(log, Ev("mine", "bitcoin", ok))
          /\ failed' = (failed \/ ~ok)
    /\ pc' = "regFlush"
    /\ UNCHANGED <<cfg, phase, who, tapLocals, tapState, clients, btcLocals,
                   bitcoinClient, cleanups, testState>>

\* itest.MineBlocks(t, bitcoinClient, 1, 0): one block-mining call; the
\* helper fails the test itself when the call fails.
MineBlocksSetup ==
    /\ pc = "mineBlocks"
    /\ \E ok \in BOOLEAN :
          /\ log' = Append(log, Ev("mine", "bitcoin", ok))
          /\ Require(ok, "regFlush")
    /\ UNCHANGED <<cfg, who, tapLocals, tapState, clients, btcLocals,
                   bitcoinClient, cleanups, testState>>

\* The closure registered at the end of initClients.
FlushCleanup == [kind |-> "flush", who |-> "bitcoin"]

\* Variant of RegisterFlush: no flush is registered.
NoRegisterFlush ==
    /\ pc = "regFlush"
    /\ pc' = "return"
    /\ UNCHANGED <<cfg, phase, who, tapLocals, tapState, clients, btcLocals,
                   bitcoinClient, cleanups, testState, failed, log>>

\* t.Cleanup(func() { itest.MineBlocks(t, bitcoinClient, 1, 0) })
RegisterFlush ==
    /\ pc = "regFlush"
    /\ cleanups' = Append(cleanups, FlushCleanup)
    /\ log' = Append(log, Ev("regFlush", "bitcoin", TRUE))
    /\ pc' = "return"
    /\ UNCHANGED <<cfg, phase, who, tapLocals, tapState, clients, btcLocals,
                   bitcoinClient, testState, failed>>

\* return alice, bob, bitcoinClient
Return ==
    /\ pc = "return"
    /\ ret' = <<clients["alice"], clients["bob"], bitcoinClient>>
    /\ log' = Append(log, Ev("return", "test", TRUE))
    /\ pc' = "body"
    /\ phase' = "body"
    /\ UNCHANGED <<cfg, who, tapLocals, tapState, clients, btcLocals,
                   bitcoinClient, cleanups, bodySteps, failed>>

----------------------------------------------------------------------------
(* The test that called initClients                                         *)

\* The test body uses the handles for one more step.
BodyStep ==
    /\ pc = "body"
    /\ bodySteps < MaxBodySteps
    /\ bodySteps' = bodySteps + 1
    /\ UNCHANGED <<cfg, pc, phase, who, tapLocals, tapState, clients,
                   btcLocals, bitcoinClient, cleanups, ret, failed, log>>

\* The test body fails partway (a require in the body).
BodyFail ==
    /\ pc = "body"
    /\ FailNow
    /\ log' = Append(log, Ev("bodyFail", "test", FALSE))
    /\ UNCHANGED <<cfg, who, tapLocals, tapState, clients, btcLocals,
                   bitcoinClient, cleanups, testState>>

\* The test body returns normally.
BodyReturn ==
    /\ pc = "body"
    /\ pc' = "runCleanup"
    /\ phase' = "teardown"
    /\ log' = Append(log, Ev("bodyReturn", "test", TRUE))
    /\ UNCHANGED <<cfg, who, tapLocals, tapState, clients, btcLocals,
                   bitcoinClient, cleanups, testState, failed>>

----------------------------------------------------------------------------
(* Running the registered cleanups.  The testing package calls them        *)
(* last-registered-first, and a cleanup that fails the test does not stop   *)
(* the ones still to run.                                                   *)

\* The cleanup that runs next, and the ones left after it.
NextCleanup(cs) == cs[Len(cs)]
RestCleanups(cs) == SubSeq(cs, 1, Len(cs) - 1)

\* func() { err := conn.Close(); require.NoError(t, err) }
RunCloseCleanup ==
    /\ pc = "runCleanup"
    /\ cleanups # <<>>
    /\ NextCleanup(cleanups).kind = "close"
    /\ LET w == NextCleanup(cleanups).who IN
         /\ conn' = [conn EXCEPT ![w] = "closed"]
         /\ \E ok \in BOOLEAN :
               /\ log' = Append(log, Ev("close", w, ok))
               /\ failed' = (failed \/ ~ok)
    /\ cleanups' = RestCleanups(cleanups)
    /\ UNCHANGED <<cfg, pc, phase, who, tapLocals, dialOpts, dialCount,
                   clients, btcLocals, bitcoinClient, testState>>

\* func() { itest.MineBlocks(t, bitcoinClient, 1, 0) }
RunFlushCleanup ==
    /\ pc = "runCleanup"
    /\ cleanups # <<>>
    /\ NextCleanup(cleanups).kind = "flush"
    /\ \E ok \in BOOLEAN :
          /\ log' = Append(log, Ev("mine", "bitcoin", ok))
          /\ failed' = (failed \/ ~ok)
    /\ cleanups' = RestCleanups(cleanups)
    /\ UNCHANGED <<cfg, pc, phase, who, tapLocals, tapState, clients,
                   btcLocals, bitcoinClient, testState>>

\* No cleanup is left: the test is over.
Finish ==
    /\ pc = "runCleanup"
    /\ cleanups = <<>>
    /\ pc' = "done"
    /\ phase' = "done"
    /\ UNCHANGED <<cfg, who, tapLocals, tapState, clients, btcLocals,
                   bitcoinClient, cleanups, testState, failed, log>>

----------------------------------------------------------------------------
Next ==
    \/ TapDefaultCreds
    \/ TapReadTLS
    \/ TapAppendCerts
    \/ TapMakeOpts
    \/ TapReadMac
    \/ TapUnmarshalMac
    \/ TapNewMacCred
    \/ TapDial
    \/ TapRegisterClose
    \/ GetInfo
    \/ BtcDisableTLS
    \/ BtcReadTLS
    \/ BtcNew
    \/ MineBlocksSetup
    \/ RegisterFlush
    \/ Return
    \/ BodyStep
    \/ BodyFail
    \/ BodyReturn
    \/ RunCloseCleanup
    \/ RunFlushCleanup
    \/ Finish

Spec == Init /\ [][Next]_vars

\* The test goroutine keeps running until the test is over: every call the
\* fixture makes is synchronous and bounded by the caller's context.
FairSpec == Spec /\ WF_vars(Next)

TypeOK ==
    /\ pc \in {"getTapClient", "readTLS", "appendCerts", "makeOpts",
               "readMac", "unmarshalMac", "newMacCred", "dial", "newClient",
               "getInfo", "getBitcoinConn", "btcReadTLS", "btcNew",
               "mineBlocks", "regFlush", "return", "body", "runCleanup",
               "done"}
    /\ phase \in {"setup", "body", "teardown", "done"}
    /\ who \in Participants
    /\ failed \in BOOLEAN
    /\ bodySteps \in 0..MaxBodySteps
    /\ \A p \in Participants : conn[p] \in {"none", "open", "closed"}

----------------------------------------------------------------------------
(* Reading the history                                                      *)

\* A call op of w with result ok is in the history.
Has(op, w, ok) ==
    \E i \in DOMAIN log : log[i].op = op /\ log[i].who = w /\ log[i].ok = ok

\* Positions of the calls op of w, and of the calls of w during setup.
At(op, w) == {i \in DOMAIN log : log[i].op = op /\ log[i].who = w}
SetupAt(w) == {i \in DOMAIN log : log[i].who = w /\ log[i].phase = "setup"}

\* Block-mining calls, by the phase they were made in.
MinesIn(ph) == {i \in DOMAIN log : log[i].op = "mine" /\ log[i].phase = ph}
AllMines == {i \in DOMAIN log : log[i].op = "mine"}

\* Close cleanups registered for p's conn: those still to run plus those run.
CloseRegistered(p) ==
    Cardinality({i \in DOMAIN cleanups :
                    cleanups[i] = [kind |-> "close", who |-> p]})
    + Cardinality(At("close", p))

\* Flush cleanups registered: those still to run plus those run.
FlushRegistered ==
    Cardinality({i \in DOMAIN cleanups : cleanups[i].kind = "flush"})
    + Cardinality(MinesIn("teardown"))

\* The credential steps of getTapClient.
CredOps == {"readTLS", "appendCerts", "readMac", "unmarshalMac", "newMacCred"}

\* A credential step of p failed.
CredFailed(p) ==
    \E i \in DOMAIN log :
        log[i].who = p /\ log[i].op \in CredOps /\ ~log[i].ok

\* Every step of p's setup has been done and succeeded.
FullSetup(p) ==
    /\ cfg[p].TLSPath # "" =>
          Has("readTLS", p, TRUE) /\ Has("appendCerts", p, TRUE)
    /\ cfg[p].MacPath # "" =>
          /\ Has("readMac", p, TRUE)
          /\ Has("unmarshalMac", p, TRUE)
          /\ Has("newMacCred", p, TRUE)
    /\ Has("dial", p, TRUE)
    /\ clients[p] # Nil
    /\ Has("regClose", p, TRUE)
    /\ CloseRegistered(p) = 1
    /\ Has("getInfo", p, TRUE)

\* getBitcoinConn or a later step of initClients has been entered.
ChainStarted ==
    \/ pc \in {"getBitcoinConn", "btcReadTLS", "btcNew", "mineBlocks",
               "regFlush", "return"}
    \/ SetupAt("bitcoin") # {}
    \/ connCfg # Nil

\* Both participants and the chain backend are configured with empty paths.
AllDefault ==
    /\ \A p \in Participants : cfg[p].TLSPath = "" /\ cfg[p].MacPath = ""
    /\ cfg.bitcoin.TLSPath = ""

----------------------------------------------------------------------------
(* Claims                                                                   *)

\* C1: a failed GetInfo probe aborts what follows it in initClients.  After
\* Alice's probe failed there is no credential read or dial for Bob, no
\* chain-node connection is built and no block is mined; after Bob's probe
\* failed no chain-node connection is built and no block is mined.
C1_ProbeFailureAborts ==
    /\ Has("getInfo", "alice", FALSE) =>
          /\ who = "alice"
          /\ \A i \in DOMAIN log : log[i].who \notin {"bob", "bitcoin"}
          /\ dialCount["bob"] = 0
          /\ connCfg = Nil /\ bitcoinClient = Nil
          /\ AllMines = {}
          /\ pc \in {"runCleanup", "done"}
    /\ Has("getInfo", "bob", FALSE) =>
          /\ \A i \in DOMAIN log : log[i].who # "bitcoin"
          /\ connCfg = Nil /\ bitcoinClient = Nil
          /\ AllMines = {}
          /\ pc \in {"runCleanup", "done"}

\* C1 witness: Alice was dialed, her probe failed, and the test is over.
C1_Witness ==
    /\ phase = "done"
    /\ Has("dial", "alice", TRUE)
    /\ Has("getInfo", "alice", FALSE)

\* C2: Alice's whole setup (credentials, dial, bundle, close registration,
\* probe) is complete before any step of Bob's setup, and Bob's whole setup
\* is complete before the chain-node connection is built; the steps are
\* totally ordered.
C2_SetupOrder ==
    /\ \A i \in SetupAt("alice") : \A j \in SetupAt("bob") : i < j
    /\ \A i \in SetupAt("alice") \cup SetupAt("bob") :
          \A j \in SetupAt("bitcoin") : i < j
    /\ (who = "bob" \/ SetupAt("bob") # {}) => FullSetup("alice")
    /\ ChainStarted => FullSetup("alice") /\ FullSetup("bob")
    /\ \A p \in Participants :
          \A i \in At("getInfo", p) : \A j \in SetupAt(p) : j <= i

\* C2 witness: both participants are set up with credentials and the
\* chain-node connection has been built.
C2_Witness ==
    /\ pc = "mineBlocks"
    /\ cfg["alice"].MacPath # "" /\ cfg["bob"].TLSPath # ""
    /\ connCfg # Nil

\* C3: when every setup step succeeds, three non-nil handles are returned,
\* and with empty TLS and token paths everywhere exactly two blocks are
\* mined over setup and teardown: one in setup, one in teardown.
C3_TwoMines ==
    /\ ret # Nil => Len(ret) = 3 /\ \A k \in 1..3 : ret[k] # Nil
    /\ (AllDefault /\ ret # Nil) =>
          /\ Cardinality(MinesIn("setup")) = 1
          /\ Cardinality(MinesIn("body")) = 0
          /\ Cardinality(MinesIn("teardown")) <= 1
    /\ (AllDefault /\ ret # Nil /\ phase = "done") =>
          /\ Cardinality(AllMines) = 2
          /\ Cardinality(MinesIn("teardown")) = 1

\* C3 witness: a default-trust fixture that returned, and whose test is over.
C3_Witness ==
    /\ AllDefault
    /\ ret # Nil
    /\ phase = "done"

\* C4: at most one channel is dialed per participant; once initClients is
\* over, a participant's conn has exactly one close cleanup registered when
\* its dial succeeded and none when the dial failed or was not attempted.
C4_OneDialOneClose ==
    \A p \in Participants :
        /\ dialCount[p] <= 1
        /\ Cardinality(At("dial", p)) = dialCount[p]
        /\ CloseRegistered(p) <= 1
        /\ CloseRegistered(p) = 1 => Has("dial", p, TRUE)
        /\ phase # "setup" =>
              (Has("dial", p, TRUE) <=> CloseRegistered(p) = 1)

\* C4 witness: initClients aborted with Alice's conn open and registered
\* for closing and Bob's dial failed.
C4_Witness ==
    /\ pc = "runCleanup"
    /\ Has("dial", "alice", TRUE)
    /\ Has("dial", "bob", FALSE)
    /\ Len(cleanups) = 1

\* C5: a credential step of getTapClient that fails (TLS file unreadable, no
\* valid certificate, token file unreadable, token undecodable, per-call
\* credential not built) stops the builder before the dial: no channel is
\* opened and no close cleanup is registered for that participant.
C5_BadCredentialNoDial ==
    \A p \in Participants :
        CredFailed(p) =>
            /\ dialCount[p] = 0
            /\ At("dial", p) = {}
            /\ conn[p] = "none"
            /\ clients[p] = Nil
            /\ CloseRegistered(p) = 0
            /\ failed
            /\ pc \in {"runCleanup", "done"}

\* C5 witness: Bob's TLS file held no valid certificate.
C5_Witness ==
    /\ Has("appendCerts", "bob", FALSE)
    /\ phase = "done"

\* C6: initClients returns the handles only when every step succeeded, and
\* then the flush cleanup is already registered; a step that fails is the
\* last step of the setup and nothing is returned.
C6_NoPartialResult ==
    /\ ret # Nil =>
          /\ FullSetup("alice") /\ FullSetup("bob")
          /\ Has("rpcclientNew", "bitcoin", TRUE)
          /\ \E i \in MinesIn("setup") : log[i].ok
          /\ FlushRegistered = 1
          /\ ret = <<clients["alice"], clients["bob"], bitcoinClient>>
          /\ \A k \in 1..3 : ret[k] # Nil
    /\ \A i \in DOMAIN log :
          (log[i].phase = "setup" /\ ~log[i].ok) =>
              /\ ret = Nil
              /\ pc \in {"runCleanup", "done"}
              /\ \A j \in DOMAIN log : j > i => log[j].phase = "teardown"

\* C6 witness: rpcclient.New failed after both participants were set up.
C6_Witness ==
    /\ Has("rpcclientNew", "bitcoin", FALSE)
    /\ phase = "done"

\* The cleanups are registered Alice's close, Bob's close, flush, and run
\* flush, Bob's close, Alice's close.
CleanupOrder ==
    /\ \E n \in 0..3 :
          cleanups = SubSeq(<<[kind |-> "close", who |-> "alice"],
                              [kind |-> "close", who |-> "bob"],
                              [kind |-> "flush", who |-> "bitcoin"]>>, 1, n)
    /\ \A i \in MinesIn("teardown") : \A j \in At("close", "bob") : i < j
    /\ \A i \in At("close", "bob") : \A j \in At("close", "alice") : i < j
    /\ \A i \in At("regClose", "alice") : \A j \in At("regClose", "bob") : i < j
    /\ \A i \in At("regClose", "bob") : \A j \in At("regFlush", "bitcoin") : i < j

\* The flush has run and both conns are closed.
TornDown ==
    /\ MinesIn("teardown") # {}
    /\ \A p \in Participants : conn[p] = "closed" /\ At("close", p) # {}

\* C7: cleanups are registered in acquisition order and run in the reverse
\* order; after initClients returned, the teardown mines a block and closes
\* both channels, also when the test body fails partway.
C7_ReverseTeardown ==
    /\ []CleanupOrder
    /\ (ret # Nil) ~> TornDown

\* C7 witness: the body failed partway and the teardown has run.
C7_Witness ==
    /\ Has("bodyFail", "test", FALSE)
    /\ bodySteps > 0
    /\ TornDown
    /\ phase = "done"

\* The option list getTapClient builds for participant p.
ExpectedOpts(p) ==
    << <<"TransportCredentials",
         IF cfg[p].TLSPath # "" THEN "certPool" ELSE "defaultTLS">>,
       <<"MaxCallRecvMsgSize">> >>
    \o (IF cfg[p].MacPath # "" THEN << <<"PerRPCCredentials">> >> ELSE <<>>)

\* C8: every dial gets transport credentials, then the maximum receive
\* size, then a per-call credential exactly when the token path is set; the
\* maximum receive size is in every dial; with both paths empty the builder
\* reaches the dial with default trust and without a failure.
C8_DialOptions ==
    \A p \in Participants :
        /\ dialCount[p] > 0 =>
              /\ dialOpts[p] = ExpectedOpts(p)
              /\ dialOpts[p][2] = <<"MaxCallRecvMsgSize">>
        /\ (pc = "dial" /\ who = p) => opts = ExpectedOpts(p)
        /\ (cfg[p].TLSPath = "" /\ cfg[p].MacPath = "") =>
              /\ ~CredFailed(p)
              /\ \A i \in DOMAIN log :
                    log[i].who = p => log[i].op \notin CredOps
              /\ dialCount[p] > 0 =>
                    dialOpts[p] = << <<"TransportCredentials", "defaultTLS">>,
                                     <<"MaxCallRecvMsgSize">> >>

\* C8 witness: Alice dialed with a token, Bob with neither path set.
C8_Witness ==
    /\ cfg["alice"].MacPath # "" /\ cfg["alice"].TLSPath # ""
    /\ cfg["bob"].MacPath = "" /\ cfg["bob"].TLSPath = ""
    /\ dialCount["alice"] = 1 /\ dialCount["bob"] = 1

\* C9: the chain-node connection has TLS disabled exactly when the TLS path
\* is empty and carries certificate bytes exactly when it is set; an empty
\* path causes no file read and no failure in getBitcoinConn before the
\* connection is built; HTTP-POST mode is always on; a failed certificate
\* read stops before the connection is built.
C9_ChainConnConfig ==
    /\ connCfg # Nil =>
          /\ connCfg[1].HTTPPostMode
          /\ connCfg[1].DisableTLS <=> (cfg.bitcoin.TLSPath = "")
          /\ (connCfg[1].Certificates = "bytes") <=> (cfg.bitcoin.TLSPath # "")
          /\ At("rpcclientNew", "bitcoin") # {}
    /\ cfg.bitcoin.TLSPath = "" =>
          /\ At("btcReadTLS", "bitcoin") = {}
          /\ pc # "btcReadTLS"
    /\ cfg.bitcoin.TLSPath # "" =>
          (pc = "btcNew" => Has("btcReadTLS", "bitcoin", TRUE))
    /\ Has("btcReadTLS", "bitcoin", FALSE) =>
          /\ connCfg = Nil /\ bitcoinClient = Nil
          /\ At("rpcclientNew", "bitcoin") = {}
          /\ pc \in {"runCleanup", "done"}

\* C9 witness: a connection built with a certificate.
C9_Witness ==
    /\ connCfg # Nil
    /\ cfg.bitcoin.TLSPath # ""
    /\ bitcoinClient # Nil

\* C10: a block is mined at teardown only if the setup mining succeeded; a
\* fixture that aborts at or before the setup mining mines nothing at
\* teardown, while every channel it opened is closed at teardown.
C10_FlushOnlyAfterSetupMine ==
    /\ MinesIn("teardown") # {} => \E i \in MinesIn("setup") : log[i].ok
    /\ FlushRegistered > 0 => \E i \in MinesIn("setup") : log[i].ok
    /\ (\E i \in DOMAIN log : log[i].phase = "setup" /\ ~log[i].ok) =>
          /\ MinesIn("teardown") = {}
          /\ FlushRegistered = 0
          /\ \A p \in Participants :
                Has("dial", p, TRUE) => CloseRegistered(p) = 1
    /\ phase = "done" =>
          \A p \in Participants :
              Has("dial", p, TRUE) =>
                  /\ conn[p] = "closed"
                  /\ \E i \in At("close", p) : log[i].phase = "teardown"

\* C10 witness: the setup mining failed with both channels open, and the
\* teardown closed both without mining.
C10_Witness ==
    /\ \E i \in MinesIn("setup") : ~log[i].ok
    /\ phase = "done"
    /\ \A p \in Participants : conn[p] = "closed"

============================================================================
